---- MODULE Spec2Model ----
(***************************************************************************)
(* The article-analysis workflow of the Perspective backend: the graph     *)
(* built by build_langgraph (parallel_analysis -> generate_perspective ->  *)
(* judge_perspective -> store_and_send, with error_handler), the nodes'    *)
(* processing functions, and the nested fan-out inside parallel_analysis   *)
(* (sentiment || extract_claims -> plan_searches -> execute_searches ->    *)
(* verify_facts).  A Python dict is a function from its keys to values;    *)
(* {**a, **b} is Merge(a, b).  External calls (LLM, search tool, storage)  *)
(* are inputs chosen with \E from small sets; the value "RAISE" stands for *)
(* a call that raised an exception.                                        *)
(***************************************************************************)
EXTENDS Integers, Sequences, FiniteSets, TLC

VARIABLES
    pc,                 \* the node the engine runs next, or "__end__"
    state,              \* the engine's RunState
    initState,          \* the RunState the run was invoked with
    nodeInput,          \* the dict handed to the latest node, as the node left it
    lastNode,           \* the latest node that completed ("none" at start)
    lastUpdate,         \* the partial update that node returned
    sentPc,             \* sentiment branch: "idle", "running", "done"
    fcPc,               \* fact-check branch: "idle", "extract", "plan", "execute",
                        \*   "searching", "verify", "done"
    sentiment_result,   \* what run_sentiment_sdk returned
    fact_check_result,  \* what run_fact_check_pipeline returned
    current_state,      \* the fact-check branch's local current_state
    searchOut,          \* per dispatched search: "pending", "RAISE" or the tool's text
    doneOrder,          \* the searches of the latest fan-out in the order they
                        \*   completed, until the next step has taken the results
    calls,              \* the external tasks invoked so far
    failed,             \* the tasks that raised or rejected their input so far
    produced,           \* the structured output of the latest successful generation
    parsedScore,        \* the integer the judge read from its latest scored reply
    genEntries,         \* entries into generate_perspective (capped at MaxEntries)
    judgeEntries,       \* entries into judge_perspective    (capped at MaxEntries)
    storeEntries,       \* entries into store_and_send       (capped at MaxEntries)
    loopBacks           \* judge -> generate routings        (capped at MaxEntries)

vars == <<pc, state, initState, nodeInput, lastNode, lastUpdate, sentPc, fcPc,
          sentiment_result, fact_check_result, current_state, searchOut,
          doneOrder, calls,
          failed, produced, parsedScore, genEntries, judgeEntries, storeEntries,
          loopBacks>>

----------------------------------------------------------------------------
\* Bounds of the model.
MaxClaims == 1          \* longest claim list the extractor returns
MaxQueries == 2         \* longest search plan the planner returns
MaxInitRetries == 1     \* largest `retries` an initial RunState carries
MaxEntries == 4         \* cap of the entry counters
MaxRouterRetries == 5   \* largest `retries` the router is evaluated on

\* Program constants.
ScoreThreshold == 70
RetryLimit == 3
MaxScore == 100
None == -1              \* Python's None where a claim_id is expected

Min(a, b) == IF a < b THEN a ELSE b
Max(a, b) == IF a > b THEN a ELSE b
Cap(n) == Min(n + 1, MaxEntries)

----------------------------------------------------------------------------
\* Dicts.
EmptyDict == [k \in {} |-> ""]

\* d.get(k, default)
Get(d, k, default) == IF k \in DOMAIN d THEN d[k] ELSE default

\* {**a, **b}
Merge(a, b) ==
    [k \in (DOMAIN a) \cup (DOMAIN b) |-> IF k \in DOMAIN b THEN b[k] ELSE a[k]]

\* Variant: on a key both hold, the RunState's value wins.
apply_rightBiased(s, p) == Merge(p, s)

\* The engine's state transition: the node's partial update overwrites the
\* matching keys of the RunState, every other key persists.
apply(s, p) == Merge(s, p)

\* The error shape every node returns from its except branch.
ErrorUpdate(from, msg) ==
    [status |-> "error", error_from |-> from, message |-> msg]

\* `not text` for a text that may be missing
Falsy(d, k) == k \notin DOMAIN d \/ d[k] = ""

----------------------------------------------------------------------------
\* What the external collaborators may answer.

\* The sentiment model's reply (before .strip().lower()).
SentimentReplies == {"Neutral"}

\* str.strip().lower() on the replies above.
StripLower(t) == IF t = "Neutral" THEN "neutral" ELSE t

\* The claim lists the extractor's reply parses to.
ClaimLists == {[i \in 1..n |-> "claim"] : n \in 0..MaxClaims}

\* A planned search: {"query": ..., "claim_id": ...}; the planner's JSON
\* names the first claim or leaves claim_id out (q.get("claim_id") is then
\* None).
QuerySet == [query : {"q"}, claim_id : {None, 0}]
QueryLists == UNION {[1..n -> QuerySet] : n \in 0..MaxQueries}

\* What search_tool.invoke returns when it does not raise.
SearchTexts == {"evidence"}

\* The fact lists the verifier's JSON decodes to.
FactLists == {<<>>, <<[claim |-> "claim", status |-> "True", reason |-> "r"]>>}

\* PerspectiveOutput objects the generation chain returns.
PerspectiveTexts == {" ", "pA", "pB"}
PerspectiveOutputs == [reasoning : {<<"step">>}, perspective : PerspectiveTexts]

\* str.strip() on the perspective texts above.
Strip(t) == IF t = " " THEN "" ELSE t

\* The judge model's reply: the call raises, the reply holds no integer, or
\* the first integer of one to three digits in it.
RawScores == {0, 69, 70, 100, 999}
JudgeReplies ==
    {[kind |-> "raise", n |-> 0], [kind |-> "text", n |-> 0]}
        \cup {[kind |-> "int", n |-> r] : r \in RawScores}

----------------------------------------------------------------------------
\* sentiment.py: run_sentiment_sdk(state), `reply` the chat completion.
SentimentCalls(st) == IF Falsy(st, "cleaned_text") THEN {} ELSE {"sentiment"}

\* Variant: the completion is requested whatever cleaned_text holds.
run_sentiment_sdk_noValidation(st, reply) ==
    IF reply = "RAISE"
    THEN ErrorUpdate("sentiment_analysis", "sentiment call failed")
    ELSE Merge(st, [sentiment |-> StripLower(reply), status |-> "success"])

\* Variant: a failed completion call is answered with a default sentiment.
run_sentiment_sdk_defaultNeutral(st, reply) ==
    IF Falsy(st, "cleaned_text")
    THEN ErrorUpdate("sentiment_analysis", "Missing or empty 'cleaned_text' in state")
    ELSE IF reply = "RAISE"
    THEN Merge(st, [sentiment |-> "neutral", status |-> "success"])
    ELSE Merge(st, [sentiment |-> StripLower(reply), status |-> "success"])

\* The cases in which run_sentiment_sdk lands in its except branch.
SentimentFaults(st, reply) ==
    IF Falsy(st, "cleaned_text") \/ reply = "RAISE" THEN {"sentiment"} ELSE {}

run_sentiment_sdk(st, reply) ==
    IF Falsy(st, "cleaned_text")
    THEN ErrorUpdate("sentiment_analysis", "Missing or empty 'cleaned_text' in state")
    ELSE IF reply = "RAISE"
    THEN ErrorUpdate("sentiment_analysis", "sentiment call failed")
    ELSE Merge(st, [sentiment |-> StripLower(reply), status |-> "success"])

\* fact_check_tool.py: extract_claims_node(state); the completion call raised,
\* or its reply parsed to `claims`.
extract_claims_node(st, raised, claims) ==
    IF raised THEN [claims |-> <<>>] ELSE [claims |-> claims]

\* fact_check_tool.py: plan_searches_node(state)
PlanCalls(st) == IF Get(st, "claims", <<>>) = <<>> THEN {} ELSE {"plan"}

\* Variant: a failed planning call leaves the node with whatever was parsed.
plan_searches_node_noExcept(st, raised, queries) ==
    IF Get(st, "claims", <<>>) = <<>>
    THEN [search_queries |-> <<>>]
    ELSE [search_queries |-> queries]

plan_searches_node(st, raised, queries) ==
    IF Get(st, "claims", <<>>) = <<>>
    THEN [search_queries |-> <<>>]
    ELSE IF raised THEN [search_queries |-> <<>>]
    ELSE [search_queries |-> queries]

\* Variant: the failure sentinel loses the query's claim_id.
run_one_search_dropId(q, out) ==
    IF out = "RAISE"
    THEN [claim_id |-> None, result |-> "Search failed"]
    ELSE [claim_id |-> q.claim_id, result |-> out]

\* fact_check_tool.py: run_one_search(q) inside execute_searches_node; `out`
\* is what search_tool.invoke did: "RAISE" or the text it returned.
run_one_search(q, out) ==
    IF out = "RAISE"
    THEN [claim_id |-> q.claim_id, result |-> "Search failed"]
    ELSE [claim_id |-> q.claim_id, result |-> out]

\* asyncio.gather(*[run_one_search(q) for q in queries]): one result per
\* query, in the order of the queries.
gather_searches(queries, outs) ==
    [i \in 1..Len(queries) |-> run_one_search(queries[i], outs[i])]

\* fact_check_tool.py: verify_facts_node(state).  The loop that builds the
\* context runs before the try block: `c_id < len(claims)` raises TypeError
\* when a result carries claim_id None, and that exception leaves the node.
VerifyEscapes(st) ==
    /\ Get(st, "claims", <<>>) # <<>>
    /\ \E i \in 1..Len(Get(st, "search_results", <<>>)) :
           st.search_results[i].claim_id = None

VerifyCalls(st) ==
    IF Get(st, "claims", <<>>) = <<>> \/ VerifyEscapes(st) THEN {} ELSE {"verify"}

\* Variant: the verifier is asked even when there is no claim.
verify_facts_node_noEmptyCheck(st, raised, facts) ==
    IF raised THEN [facts |-> <<>>, fact_check_done |-> TRUE]
    ELSE [facts |-> facts, fact_check_done |-> TRUE]

verify_facts_node(st, raised, facts) ==
    IF Get(st, "claims", <<>>) = <<>>
    THEN [facts |-> <<>>, fact_check_done |-> TRUE]
    ELSE IF raised THEN [facts |-> <<>>, fact_check_done |-> TRUE]
    ELSE [facts |-> facts, fact_check_done |-> TRUE]

\* sentiment.py: what run_fact_check_pipeline returns from its try block ...
fact_check_return(cs) ==
    [claims |-> Get(cs, "claims", <<>>),
     search_queries |-> Get(cs, "search_queries", <<>>),
     search_results |-> Get(cs, "search_results", <<>>),
     facts |-> Get(cs, "facts", <<>>),
     status |-> "success"]

\* ... and from its except block.
fact_check_except(msg) == ErrorUpdate("fact_checking", msg)

\* Variant: the merged update carries no status.
run_parallel_analysis_noStatus(st, sres, fres) ==
    IF Get(sres, "status", "") = "error"
    THEN [status |-> "error",
          error_from |-> Get(sres, "error_from", "sentiment_analysis"),
          message |-> Get(sres, "message", "Unknown error")]
    ELSE IF Get(fres, "status", "") = "error"
    THEN [status |-> "error",
          error_from |-> Get(fres, "error_from", "fact_checking"),
          message |-> Get(fres, "message", "Unknown error")]
    ELSE Merge(st, [sentiment |-> Get(sres, "sentiment", "none"),
                    claims |-> Get(fres, "claims", <<>>),
                    search_queries |-> Get(fres, "search_queries", <<>>),
                    search_results |-> Get(fres, "search_results", <<>>),
                    facts |-> Get(fres, "facts", <<>>)])

\* Variant: the join looks at the fact-check result before the sentiment result.
run_parallel_analysis_factFirst(st, sres, fres) ==
    IF Get(fres, "status", "") = "error"
    THEN [status |-> "error",
          error_from |-> Get(fres, "error_from", "fact_checking"),
          message |-> Get(fres, "message", "Unknown error")]
    ELSE IF Get(sres, "status", "") = "error"
    THEN [status |-> "error",
          error_from |-> Get(sres, "error_from", "sentiment_analysis"),
          message |-> Get(sres, "message", "Unknown error")]
    ELSE Merge(st, [sentiment |-> Get(sres, "sentiment", "none"),
                    claims |-> Get(fres, "claims", <<>>),
                    search_queries |-> Get(fres, "search_queries", <<>>),
                    search_results |-> Get(fres, "search_results", <<>>),
                    facts |-> Get(fres, "facts", <<>>),
                    status |-> "success"])

\* Variant: the merged update reads sentiment from the input state.
run_parallel_analysis_sentimentFromState(st, sres, fres) ==
    IF Get(sres, "status", "") = "error"
    THEN [status |-> "error",
          error_from |-> Get(sres, "error_from", "sentiment_analysis"),
          message |-> Get(sres, "message", "Unknown error")]
    ELSE IF Get(fres, "status", "") = "error"
    THEN [status |-> "error",
          error_from |-> Get(fres, "error_from", "fact_checking"),
          message |-> Get(fres, "message", "Unknown error")]
    ELSE Merge(st, [sentiment |-> Get(st, "sentiment", "none"),
                    claims |-> Get(fres, "claims", <<>>),
                    search_queries |-> Get(fres, "search_queries", <<>>),
                    search_results |-> Get(fres, "search_results", <<>>),
                    facts |-> Get(fres, "facts", <<>>),
                    status |-> "success"])

\* sentiment.py: run_parallel_analysis after the gather: the join of the two
\* branch results.
run_parallel_analysis(st, sres, fres) ==
    IF Get(sres, "status", "") = "error"
    THEN [status |-> "error",
          error_from |-> Get(sres, "error_from", "sentiment_analysis"),
          message |-> Get(sres, "message", "Unknown error")]
    ELSE IF Get(fres, "status", "") = "error"
    THEN [status |-> "error",
          error_from |-> Get(fres, "error_from", "fact_checking"),
          message |-> Get(fres, "message", "Unknown error")]
    ELSE Merge(st, [sentiment |-> Get(sres, "sentiment", "none"),
                    claims |-> Get(fres, "claims", <<>>),
                    search_queries |-> Get(fres, "search_queries", <<>>),
                    search_results |-> Get(fres, "search_results", <<>>),
                    facts |-> Get(fres, "facts", <<>>),
                    status |-> "success"])

\* Variant: the entry counts twice.
GenerateInput_doubleIncrement(st) ==
    Merge(st, [retries |-> Get(st, "retries", 0) + 2])

----------------------------------------------------------------------------
\* Variant: the node reads retries and writes it back without adding one.
GenerateInput_noIncrement(st) ==
    Merge(st, [retries |-> Get(st, "retries", 0)])

\* generate_perspective.py: generate_perspective(state).  The node writes
\* state["retries"] into the dict it was handed before anything can fail.
GenerateInput(st) ==
    Merge(st, [retries |-> Get(st, "retries", 0) + 1])

GenerateCalls(st) == IF Falsy(st, "cleaned_text") THEN {} ELSE {"generate"}

\* The cases in which generate_perspective lands in its except branch.
GenerateFaults(st, raised) ==
    IF Falsy(st, "cleaned_text") \/ raised THEN {"generate"} ELSE {}

\* Variant: the success return stores the generated text as cleaned_text.
generate_perspective_overwritesText(st, raised, out) ==
    IF Falsy(st, "cleaned_text") \/ raised
    THEN ErrorUpdate("generate_perspective", "generation call failed")
    ELSE Merge(Merge(st, [retries |-> Get(st, "retries", 0) + 1]),
               [perspective |-> out, cleaned_text |-> out.perspective,
                status |-> "success"])

\* Variant: the except branch names the wrong node.
generate_perspective_wrongFrom(st, raised, out) ==
    IF Falsy(st, "cleaned_text") \/ raised
    THEN ErrorUpdate("judge_perspective", "generation call failed")
    ELSE Merge(Merge(st, [retries |-> Get(st, "retries", 0) + 1]),
               [perspective |-> out, status |-> "success"])

\* `out` is "RAISE" or the PerspectiveOutput the chain returned; the result
\* is the node's return value.
generate_perspective(st, raised, out) ==
    IF "cleaned_text" \notin DOMAIN st
    THEN ErrorUpdate("generate_perspective", "'cleaned_text'")
    ELSE IF st.cleaned_text = ""
    THEN ErrorUpdate("generate_perspective", "Missing or empty 'cleaned_text' in state")
    ELSE IF raised
    THEN ErrorUpdate("generate_perspective", "generation call failed")
    ELSE Merge(GenerateInput(st), [perspective |-> out, status |-> "success"])

\* judge.py: the text judge_perspective scores:
\* getattr(state.get("perspective"), "perspective", "").strip()
JudgeText(st) ==
    IF "perspective" \in DOMAIN st THEN Strip(st.perspective.perspective) ELSE ""

JudgeCalls(st) == IF JudgeText(st) = "" THEN {} ELSE {"judge"}

\* The cases in which judge_perspective lands in its except branch.
JudgeFaults(st, reply) ==
    IF JudgeText(st) = "" \/ reply.kind # "int" THEN {"judge"} ELSE {}

\* Variant: only the lower bound is enforced.
Clamp_noUpper(n) == Max(0, n)

\* max(0, min(100, int(m.group(1))))
Clamp(n) == Max(0, Min(MaxScore, n))

\* Variant: the except branch resets the score.
judge_perspective_errorClearsScore(st, reply) ==
    IF JudgeText(st) = "" \/ reply.kind # "int"
    THEN [status |-> "error", error_from |-> "judge_perspective",
          message |-> "judge call failed", score |-> 0]
    ELSE Merge(st, [score |-> Clamp(reply.n), status |-> "success"])

\* Variant: the except branch leaves the message out.
judge_perspective_noMessage(st, reply) ==
    IF JudgeText(st) = "" \/ reply.kind # "int"
    THEN [status |-> "error", error_from |-> "judge_perspective"]
    ELSE Merge(st, [score |-> Clamp(reply.n), status |-> "success"])

\* judge.py: judge_perspective(state), `reply` the judge model's reply.
judge_perspective(st, reply) ==
    IF JudgeText(st) = ""
    THEN ErrorUpdate("judge_perspective", "Empty 'perspective' for scoring")
    ELSE IF reply.kind = "raise"
    THEN ErrorUpdate("judge_perspective", "judge call failed")
    ELSE IF reply.kind = "text"
    THEN ErrorUpdate("judge_perspective", "Couldn't parse a score")
    ELSE Merge(st, [score |-> Clamp(reply.n), status |-> "success"])

\* store_and_send: persists the RunState and reports success, or reports
\* the failure in the error shape.
store_and_send(st, raised) ==
    IF raised
    THEN ErrorUpdate("store_and_send", "store failed")
    ELSE Merge(st, [status |-> "success"])

\* error_handler: terminal, reports the failure it finds in the RunState
\* and changes nothing.
error_handler(st) == EmptyDict

----------------------------------------------------------------------------
\* langgraph_builder.py: the conditional edges of build_langgraph.
Nodes == {"parallel_analysis", "generate_perspective", "judge_perspective",
          "store_and_send", "error_handler"}

EntryPoint == "parallel_analysis"

\* Variant: a successful analysis is stored at once.
AnalyzeRouter_toStore(x) ==
    IF Get(x, "status", "") = "error" THEN "error_handler" ELSE "store_and_send"

AnalyzeRouter(x) ==
    IF Get(x, "status", "") = "error" THEN "error_handler" ELSE "generate_perspective"

\* Variant: the edge after generate_perspective does not look at status.
GenerateRouter_ignoreError(x) == "judge_perspective"

GenerateRouter(x) ==
    IF Get(x, "status", "") = "error" THEN "error_handler" ELSE "judge_perspective"

\* Variant: the edge after judge_perspective does not look at status.
JudgeRouter_ignoreError(x) ==
    IF Get(x, "score", 0) < ScoreThreshold
    THEN (IF Get(x, "retries", 0) >= RetryLimit
          THEN "store_and_send"
          ELSE "generate_perspective")
    ELSE "store_and_send"

\* Variant: retries compared with > instead of >=.
JudgeRouter_strictRetries(x) ==
    IF Get(x, "status", "") = "error"
    THEN "error_handler"
    ELSE IF Get(x, "score", 0) < ScoreThreshold
    THEN (IF Get(x, "retries", 0) > RetryLimit
          THEN "store_and_send"
          ELSE "generate_perspective")
    ELSE "store_and_send"

\* Variant: score compared with <= instead of <.
JudgeRouter_inclusiveThreshold(x) ==
    IF Get(x, "status", "") = "error"
    THEN "error_handler"
    ELSE IF Get(x, "score", 0) <= ScoreThreshold
    THEN (IF Get(x, "retries", 0) >= RetryLimit
          THEN "store_and_send"
          ELSE "generate_perspective")
    ELSE "store_and_send"

\* Variant: a low score loops back whatever retries is.
JudgeRouter_noRetryCheck(x) ==
    IF Get(x, "status", "") = "error"
    THEN "error_handler"
    ELSE IF Get(x, "score", 0) < ScoreThreshold
    THEN "generate_perspective"
    ELSE "store_and_send"

JudgeRouter(x) ==
    IF Get(x, "status", "") = "error"
    THEN "error_handler"
    ELSE IF Get(x, "score", 0) < ScoreThreshold
    THEN (IF Get(x, "retries", 0) >= RetryLimit
          THEN "store_and_send"
          ELSE "generate_perspective")
    ELSE "store_and_send"

\* Variant: the edge after store_and_send restarts the generation on success.
StoreRouter_loopsBack(x) ==
    IF Get(x, "status", "") = "error" THEN "error_handler" ELSE "generate_perspective"

\* Variant: store_and_send has only its finish edge.
StoreRouter_alwaysEnd(x) == "__end__"

\* The conditional edge of store_and_send; set_finish_point adds the edge
\* store_and_send -> END, which starts no node.
StoreRouter(x) ==
    IF Get(x, "status", "") = "error" THEN "error_handler" ELSE "__end__"

\* error_handler has no outgoing edge: the run ends after it.
ErrorHandlerRouter(x) == "__end__"

Router(node, x) ==
    CASE node = "parallel_analysis" -> AnalyzeRouter(x)
      [] node = "generate_perspective" -> GenerateRouter(x)
      [] node = "judge_perspective" -> JudgeRouter(x)
      [] node = "store_and_send" -> StoreRouter(x)
      [] node = "error_handler" -> ErrorHandlerRouter(x)

----------------------------------------------------------------------------
\* The RunStates a run is invoked with: run_scraper_pipeline hands over
\* cleaned_text (possibly empty) and keywords; run_langgraph_workflow takes
\* any dict, so cleaned_text may be missing and retries may be present.
InitStates ==
    {Merge(Merge([keywords |-> <<"kw">>], ct), rt) :
        ct \in {EmptyDict, [cleaned_text |-> ""], [cleaned_text |-> "article"]},
        rt \in {EmptyDict} \cup {[retries |-> r] : r \in 0..MaxInitRetries}}

NoOutput == [reasoning |-> <<>>, perspective |-> ""]

Init ==
    /\ pc = EntryPoint
    /\ state \in InitStates
    /\ initState = state
    /\ nodeInput = EmptyDict
    /\ lastNode = "none"
    /\ lastUpdate = EmptyDict
    /\ sentPc = "idle"
    /\ fcPc = "idle"
    /\ sentiment_result = EmptyDict
    /\ fact_check_result = EmptyDict
    /\ current_state = EmptyDict
    /\ searchOut = <<>>
    /\ doneOrder = <<>>
    /\ calls = {}
    /\ failed = {}
    /\ produced = NoOutput
    /\ parsedScore = None
    /\ genEntries = 0
    /\ judgeEntries = 0
    /\ storeEntries = 0
    /\ loopBacks = 0

\* The engine after a node returned `update`: apply it, then evaluate the
\* node's router on the new RunState.
Complete(node, update) ==
    /\ state' = apply(state, update)
    /\ pc' = Router(node, state')
    /\ lastNode' = node
    /\ lastUpdate' = update

engineVars == <<pc, state, lastNode, lastUpdate>>
analysisVars == <<sentPc, fcPc, sentiment_result, fact_check_result,
                  current_state, searchOut, doneOrder>>
counters == <<parsedScore, genEntries, judgeEntries, storeEntries, loopBacks>>

----------------------------------------------------------------------------
\* parallel_analysis.

\* run_parallel_analysis is entered: both branches are created from the same
\* state and handed to asyncio.gather.
AnalyzeStart ==
    /\ pc = "parallel_analysis"
    /\ sentPc = "idle" /\ fcPc = "idle"
    /\ sentPc' = "running"
    /\ fcPc' = "extract"
    /\ nodeInput' = state
    /\ current_state' = state
    /\ UNCHANGED <<engineVars, initState, sentiment_result, fact_check_result,
                   searchOut, doneOrder, calls, failed, produced, counters>>

\* The sentiment branch: run_sentiment_sdk in a worker thread.
SentimentTask ==
    /\ sentPc = "running"
    /\ \E reply \in {"RAISE"} \cup SentimentReplies :
           /\ sentiment_result' = run_sentiment_sdk(nodeInput, reply)
           /\ failed' = failed \cup SentimentFaults(nodeInput, reply)
    /\ sentPc' = "done"
    /\ calls' = calls \cup SentimentCalls(nodeInput)
    /\ UNCHANGED <<engineVars, initState, nodeInput, fcPc, fact_check_result,
                   current_state, searchOut, doneOrder, produced, counters>>

\* Variant: step 1 writes its claims into the dict both branches share.
ExtractClaims_inPlace ==
    /\ fcPc = "extract"
    /\ \E raised \in BOOLEAN, claims \in ClaimLists :
           /\ nodeInput' =
                  Merge(nodeInput, extract_claims_node(nodeInput, raised, claims))
           /\ failed' = failed \cup (IF raised THEN {"extract"} ELSE {})
    /\ current_state' = nodeInput'
    /\ fcPc' = "plan"
    /\ calls' = calls \cup {"extract"}
    /\ UNCHANGED <<engineVars, initState, sentPc, sentiment_result,
                   fact_check_result, searchOut, doneOrder, produced, counters>>

\* Step 1 of the fact-check chain.
ExtractClaims ==
    /\ fcPc = "extract"
    /\ \E raised \in BOOLEAN, claims \in ClaimLists :
           /\ current_state' =
                  Merge(nodeInput, extract_claims_node(nodeInput, raised, claims))
           /\ failed' = failed \cup (IF raised THEN {"extract"} ELSE {})
    /\ fcPc' = "plan"
    /\ calls' = calls \cup {"extract"}
    /\ UNCHANGED <<engineVars, initState, nodeInput, sentPc, sentiment_result,
                   fact_check_result, searchOut, doneOrder, produced, counters>>

\* Step 2.
PlanSearches ==
    /\ fcPc = "plan"
    /\ \E raised \in BOOLEAN, queries \in QueryLists :
           /\ current_state' =
                  Merge(current_state,
                        plan_searches_node(current_state, raised, queries))
           /\ failed' = failed \cup (IF raised THEN PlanCalls(current_state) ELSE {})
    /\ fcPc' = "execute"
    /\ calls' = calls \cup PlanCalls(current_state)
    /\ UNCHANGED <<engineVars, initState, nodeInput, sentPc, sentiment_result,
                   fact_check_result, searchOut, doneOrder, produced, counters>>

\* Variant: the gather is set up even when there is no query.
ExecuteSearches_alwaysDispatch ==
    /\ fcPc = "execute"
    /\ doneOrder' = <<>>
    /\ searchOut' =
           [i \in 1..Len(Get(current_state, "search_queries", <<>>)) |-> "pending"]
    /\ fcPc' = "searching"
    /\ calls' = calls \cup {"search"}
    /\ UNCHANGED <<engineVars, initState, nodeInput, sentPc, sentiment_result,
                   fact_check_result, current_state, failed, produced, counters>>

\* Step 3, execute_searches_node up to its gather: with no query it returns
\* at once, otherwise one run_one_search per query is dispatched.
ExecuteSearches ==
    /\ fcPc = "execute"
    /\ IF Get(current_state, "search_queries", <<>>) = <<>>
       THEN /\ current_state' = Merge(current_state, [search_results |-> <<>>])
            /\ fcPc' = "verify"
            /\ UNCHANGED <<searchOut, doneOrder, calls>>
       ELSE /\ doneOrder' = <<>>
            /\ searchOut' = [i \in 1..Len(current_state.search_queries) |-> "pending"]
            /\ fcPc' = "searching"
            /\ calls' = calls \cup {"search"}
            /\ UNCHANGED current_state
    /\ UNCHANGED <<engineVars, initState, nodeInput, sentPc, sentiment_result,
                   fact_check_result, failed, produced, counters>>

\* One dispatched search returns or raises; the searches finish in any order.
SearchCompletes ==
    /\ fcPc = "searching"
    /\ \E i \in 1..Len(searchOut), out \in {"RAISE"} \cup SearchTexts :
           /\ searchOut[i] = "pending"
           /\ searchOut' = [searchOut EXCEPT ![i] = out]
           /\ doneOrder' = Append(doneOrder, i)
           /\ failed' = failed \cup (IF out = "RAISE" THEN {"search"} ELSE {})
    /\ UNCHANGED <<engineVars, initState, nodeInput, sentPc, fcPc, sentiment_result,
                   fact_check_result, current_state, calls, produced, counters>>

\* Variant: the results are collected as the searches complete.
GatherSearches_asCompleted ==
    /\ fcPc = "searching"
    /\ \A i \in 1..Len(searchOut) : searchOut[i] # "pending"
    /\ current_state' =
           Merge(current_state,
                 [search_results |->
                      [k \in 1..Len(doneOrder) |->
                           run_one_search(current_state.search_queries[doneOrder[k]],
                                          searchOut[doneOrder[k]])]])
    /\ fcPc' = "verify"
    /\ UNCHANGED <<engineVars, initState, nodeInput, sentPc, sentiment_result,
                   fact_check_result, searchOut, doneOrder, calls, failed, produced,
                   counters>>

\* The gather of execute_searches_node returns once every search is done.
GatherSearches ==
    /\ fcPc = "searching"
    /\ \A i \in 1..Len(searchOut) : searchOut[i] # "pending"
    /\ current_state' =
           Merge(current_state,
                 [search_results |->
                      gather_searches(current_state.search_queries, searchOut)])
    /\ fcPc' = "verify"
    /\ UNCHANGED <<engineVars, initState, nodeInput, sentPc, sentiment_result,
                   fact_check_result, searchOut, doneOrder, calls, failed, produced,
                   counters>>

\* Step 4 and the return of run_fact_check_pipeline; an exception that
\* leaves verify_facts_node lands in the pipeline's except block.
VerifyFacts ==
    /\ fcPc = "verify"
    /\ IF VerifyEscapes(current_state)
       THEN /\ fact_check_result' = fact_check_except("TypeError")
            /\ failed' = failed \cup {"verify_context"}
            /\ UNCHANGED current_state
       ELSE \E raised \in BOOLEAN, facts \in FactLists :
               /\ current_state' =
                      Merge(current_state,
                            verify_facts_node(current_state, raised, facts))
               /\ fact_check_result' = fact_check_return(current_state')
               /\ failed' = failed \cup
                      (IF raised THEN VerifyCalls(current_state) ELSE {})
    /\ fcPc' = "done"
    /\ doneOrder' = <<>>
    /\ calls' = calls \cup VerifyCalls(current_state)
    /\ UNCHANGED <<engineVars, initState, nodeInput, sentPc, sentiment_result,
                   searchOut, produced, counters>>

\* Variant: the stage returns as soon as the sentiment branch has failed.
AnalyzeJoin_failFast ==
    /\ pc = "parallel_analysis"
    /\ \/ sentPc = "done" /\ fcPc = "done"
       \/ sentPc = "done" /\ Get(sentiment_result, "status", "") = "error"
    /\ Complete("parallel_analysis",
                run_parallel_analysis(nodeInput, sentiment_result, fact_check_result))
    /\ UNCHANGED <<initState, nodeInput, analysisVars, calls, failed, produced,
                   counters>>

\* Variant: the stage waits for the fact-check branch only.
AnalyzeJoin_factCheckOnly ==
    /\ pc = "parallel_analysis"
    /\ fcPc = "done"
    /\ Complete("parallel_analysis",
                run_parallel_analysis(nodeInput, sentiment_result, fact_check_result))
    /\ UNCHANGED <<initState, nodeInput, analysisVars, calls, failed, produced,
                   counters>>

\* Both branches are done: asyncio.gather returns, run_parallel_analysis
\* returns its update and the engine routes.
AnalyzeJoin ==
    /\ pc = "parallel_analysis"
    /\ sentPc = "done" /\ fcPc = "done"
    /\ Complete("parallel_analysis",
                run_parallel_analysis(nodeInput, sentiment_result, fact_check_result))
    /\ UNCHANGED <<initState, nodeInput, analysisVars, calls, failed, produced,
                   counters>>

----------------------------------------------------------------------------
\* The sequential nodes.  Each receives a snapshot of the RunState and
\* returns its update.

Generate ==
    /\ pc = "generate_perspective"
    /\ \E raised \in BOOLEAN, out \in PerspectiveOutputs :
           /\ Complete("generate_perspective", generate_perspective(state, raised, out))
           /\ produced' = IF Get(lastUpdate', "status", "") = "success"
                          THEN out ELSE produced
           /\ failed' = failed \cup GenerateFaults(state, raised)
    /\ nodeInput' = GenerateInput(state)
    /\ calls' = calls \cup GenerateCalls(state)
    /\ genEntries' = Cap(genEntries)
    /\ UNCHANGED <<initState, analysisVars, parsedScore, judgeEntries, storeEntries,
                   loopBacks>>

Judge ==
    /\ pc = "judge_perspective"
    /\ \E reply \in JudgeReplies :
           /\ Complete("judge_perspective", judge_perspective(state, reply))
           /\ failed' = failed \cup JudgeFaults(state, reply)
           /\ parsedScore' = IF JudgeFaults(state, reply) = {}
                             THEN reply.n ELSE parsedScore
    /\ nodeInput' = state
    /\ calls' = calls \cup JudgeCalls(state)
    /\ judgeEntries' = Cap(judgeEntries)
    /\ loopBacks' = IF pc' = "generate_perspective" THEN Cap(loopBacks) ELSE loopBacks
    /\ UNCHANGED <<initState, analysisVars, produced, genEntries, storeEntries>>

Store ==
    /\ pc = "store_and_send"
    /\ \E raised \in BOOLEAN :
           /\ Complete("store_and_send", store_and_send(state, raised))
           /\ failed' = failed \cup (IF raised THEN {"store"} ELSE {})
    /\ nodeInput' = state
    /\ calls' = calls \cup {"store"}
    /\ storeEntries' = Cap(storeEntries)
    /\ UNCHANGED <<initState, analysisVars, produced, parsedScore, genEntries,
                   judgeEntries, loopBacks>>

ErrorHandler ==
    /\ pc = "error_handler"
    /\ Complete("error_handler", error_handler(state))
    /\ nodeInput' = state
    /\ UNCHANGED <<initState, analysisVars, calls, failed, produced, counters>>

Next ==
    \/ AnalyzeStart
    \/ SentimentTask
    \/ ExtractClaims
    \/ PlanSearches
    \/ ExecuteSearches
    \/ SearchCompletes
    \/ GatherSearches
    \/ VerifyFacts
    \/ AnalyzeJoin
    \/ Generate
    \/ Judge
    \/ Store
    \/ ErrorHandler

Spec == Init /\ [][Next]_vars

\* Every external call eventually returns and the event loop runs whatever
\* is ready, so a step that stays possible is eventually taken.
LiveSpec == Spec /\ WF_vars(Next)

----------------------------------------------------------------------------
\* The router of judge_perspective on its own: the engine evaluates it on
\* the RunState it holds once the judge's update is applied.
RouterStates ==
    [status : {"success", "error"}, score : 0..MaxScore,
     retries : 0..MaxRouterRetries]

RouterInit ==
    /\ pc = "judge_perspective"
    /\ state \in RouterStates
    /\ initState = state
    /\ nodeInput = EmptyDict
    /\ lastNode = "none"
    /\ lastUpdate = EmptyDict
    /\ sentPc = "idle"
    /\ fcPc = "idle"
    /\ sentiment_result = EmptyDict
    /\ fact_check_result = EmptyDict
    /\ current_state = EmptyDict
    /\ searchOut = <<>>
    /\ doneOrder = <<>>
    /\ calls = {}
    /\ failed = {}
    /\ produced = NoOutput
    /\ parsedScore = None
    /\ genEntries = 0
    /\ judgeEntries = 0
    /\ storeEntries = 0
    /\ loopBacks = 0

JudgeRoute ==
    /\ pc = "judge_perspective"
    /\ lastNode = "none"
    /\ pc' = Router("judge_perspective", state)
    /\ lastNode' = "judge_perspective"
    /\ UNCHANGED <<state, initState, nodeInput, lastUpdate, analysisVars, calls,
                   failed, produced, counters>>

RouterNext == JudgeRoute

RouterSpec == RouterInit /\ [][RouterNext]_vars

----------------------------------------------------------------------------
\* The dict merge on its own: {**s, **p} as the fact-check chain folds each
\* step's result into current_state and as the engine applies an update.
MergeDicts ==
    {Merge(Merge(a, b), c) :
        a \in {EmptyDict, [status |-> "success"], [status |-> "error"]},
        b \in {EmptyDict, [score |-> 0], [score |-> MaxScore]},
        c \in {EmptyDict, [retries |-> 0], [retries |-> RetryLimit]}}

MergeInit ==
    /\ pc = "merge"
    /\ state \in MergeDicts
    /\ initState = state
    /\ nodeInput = EmptyDict
    /\ lastNode = "none"
    /\ lastUpdate = EmptyDict
    /\ sentPc = "idle"
    /\ fcPc = "idle"
    /\ sentiment_result = EmptyDict
    /\ fact_check_result = EmptyDict
    /\ current_state = EmptyDict
    /\ searchOut = <<>>
    /\ doneOrder = <<>>
    /\ calls = {}
    /\ failed = {}
    /\ produced = NoOutput
    /\ parsedScore = None
    /\ genEntries = 0
    /\ judgeEntries = 0
    /\ storeEntries = 0
    /\ loopBacks = 0

\* One merge: nodeInput keeps the dict merged into, lastUpdate the dict
\* merged in.
MergeApply ==
    /\ pc = "merge"
    /\ \E p \in MergeDicts :
           /\ state' = apply(state, p)
           /\ lastUpdate' = p
    /\ nodeInput' = state
    /\ lastNode' = "merge"
    /\ UNCHANGED <<pc, initState, analysisVars, calls, failed, produced, counters>>

MergeNext == MergeApply

MergeSpec == MergeInit /\ [][MergeNext]_vars

\* The graph's edges: every target a node's router can name.
Edges == {<<n, Router(n, x)>> : n \in Nodes, x \in RouterStates}

\* The position of a node in the workflow.
Rank(n) ==
    CASE n = "parallel_analysis" -> 1
      [] n = "generate_perspective" -> 2
      [] n = "judge_perspective" -> 3
      [] n = "store_and_send" -> 4
      [] n = "error_handler" -> 5
      [] n = "__end__" -> 6

----------------------------------------------------------------------------
\* Properties.

NoInitRetries == "retries" \notin DOMAIN initState

\* The judge has just completed successfully (its update is applied and its
\* router evaluated; no later node has completed).
JudgedOk == lastNode = "judge_perspective" /\ state.status = "success"

AnalysisKeys == {"sentiment", "claims", "search_queries", "search_results", "facts"}

WorkNodes == {"parallel_analysis", "generate_perspective", "judge_perspective",
              "store_and_send"}

\* C1: from an initial RunState without retries, while every generation
\* succeeds and every judgement succeeds with a score below 70, the judge
\* loops back after the first and the second attempt and routes to
\* store_and_send after the third: 3 entries into generate_perspective, 2
\* loop-backs, retries = 3, and the perspective is the one the third entry
\* produced.
C1_LowScoresStoreAfterThree ==
    (NoInitRetries /\ JudgedOk /\ state.score < ScoreThreshold) =>
        IF judgeEntries < 3
        THEN /\ pc = "generate_perspective"
             /\ genEntries = judgeEntries
             /\ loopBacks = judgeEntries
             /\ state.retries = judgeEntries
        ELSE /\ pc = "store_and_send"
             /\ genEntries = 3
             /\ judgeEntries = 3
             /\ loopBacks = 2
             /\ state.retries = 3
             /\ state.perspective = produced

C1_Witness ==
    /\ NoInitRetries /\ JudgedOk /\ state.score < ScoreThreshold
    /\ pc = "store_and_send"
    /\ genEntries = 3 /\ loopBacks = 2

\* C2: the router after judge_perspective is the three-way function:
\* error_handler if status = error, else generate_perspective if score < 70
\* and retries < 3, else store_and_send; and judge -> generate is the only
\* edge of the graph that leads to a node at or before its source.
ThreeWay(x) ==
    IF x.status = "error" THEN "error_handler"
    ELSE IF x.score < 70 /\ x.retries < 3 THEN "generate_perspective"
    ELSE "store_and_send"

C2_JudgeRouterThreeWay ==
    /\ lastNode = "judge_perspective" => pc = ThreeWay(state)
    /\ {e \in Edges : Rank(e[2]) <= Rank(e[1])}
           = {<<"judge_perspective", "generate_perspective">>}

C2_Witness ==
    /\ lastNode = "judge_perspective"
    /\ state.status = "success" /\ state.score = 69 /\ state.retries = 2
    /\ pc = "generate_perspective"

\* C3: every run eventually ends, after store_and_send completed with
\* success or after error_handler.
TerminalReached ==
    \/ lastNode = "store_and_send" /\ state.status = "success"
    \/ lastNode = "error_handler"

C3_EventuallyTerminal == <>(pc = "__end__" /\ TerminalReached)

C3_Witness ==
    /\ pc = "__end__" /\ lastNode = "store_and_send" /\ state.status = "success"
    /\ loopBacks = 2 /\ state.score < ScoreThreshold

\* C4: in a run that starts without retries, generate_perspective and
\* judge_perspective are each entered at most 3 times, and a successful
\* judgement with retries at 3 (or more) routes to store_and_send whatever
\* the score.
C4_AtMostThreeAttempts ==
    /\ NoInitRetries => genEntries <= 3 /\ judgeEntries <= 3
    /\ (JudgedOk /\ Get(state, "retries", 0) >= 3) => pc = "store_and_send"

C4_Witness ==
    /\ NoInitRetries /\ JudgedOk
    /\ genEntries = 3 /\ judgeEntries = 3
    /\ state.retries = 3 /\ state.score = 0
    /\ pc = "store_and_send"

\* C5: a step that completes parallel_analysis, generate_perspective,
\* judge_perspective or store_and_send with status = error hands over to
\* error_handler; from then on the only step is error_handler's, and no
\* entry into generate_perspective, judge_perspective or store_and_send
\* occurs.
ErrorSeen == pc = "error_handler" \/ lastNode = "error_handler"

C5_ErrorsGoToErrorHandler ==
    [][ /\ (lastNode' \in WorkNodes /\ Get(state', "status", "") = "error")
               => pc' = "error_handler"
        /\ ErrorSeen =>
               /\ pc = "error_handler" /\ lastNode' = "error_handler"
               /\ pc' = "__end__"
               /\ UNCHANGED counters ]_vars

C5_Witness ==
    /\ pc = "__end__" /\ lastNode = "error_handler"
    /\ state.error_from = "judge_perspective"
    /\ genEntries = 2 /\ judgeEntries = 2 /\ storeEntries = 0

\* C6: the run starts at parallel_analysis, and no step is taken once
\* store_and_send has completed with success or error_handler has completed:
\* no node runs and the RunState stays as it is.
C6_StartAndAbsorbing ==
    /\ pc = "parallel_analysis" /\ lastNode = "none"
    /\ [][~TerminalReached]_vars

C6_Witness ==
    /\ pc = "__end__" /\ lastNode = "store_and_send" /\ state.status = "success"
    /\ loopBacks = 1

ExitSuccess == Get(state, "status", "") = "success" /\ storeEntries >= 1

ExitFailure ==
    /\ Get(state, "status", "") = "error"
    /\ {"error_from", "message"} \subseteq DOMAIN state

C8_ExitContract ==
    pc = "__end__" => (ExitSuccess \/ ExitFailure) /\ ~(ExitSuccess /\ ExitFailure)

C8_Witness ==
    /\ pc = "__end__" /\ ExitFailure /\ ~ExitSuccess
    /\ state.error_from = "judge_perspective"

\* C9: once execute_searches_node has returned, there is one result per
\* query; the result of a search that raised is the sentinel "Search failed"
\* with the claim_id of its own query, every other result is what the tool
\* returned for its query, and the node reported no failure.
SearchesReturned ==
    fcPc \in {"verify", "done"} /\ "search_results" \in DOMAIN current_state

C9_FanOutContainsFailure ==
    SearchesReturned =>
        LET qs == Get(current_state, "search_queries", <<>>)
            rs == current_state.search_results
        IN  /\ Len(rs) = Len(qs)
            /\ Len(searchOut) = Len(qs)
            /\ \A i \in 1..Len(qs) :
                   /\ rs[i].claim_id = qs[i].claim_id
                   /\ searchOut[i] = "RAISE" => rs[i].result = "Search failed"
                   /\ searchOut[i] # "RAISE" => rs[i].result = searchOut[i]
            /\ Get(current_state, "status", "") # "error"
            /\ (Get(fact_check_result, "status", "") = "error"
                    => VerifyEscapes(current_state))

C9_Witness ==
    /\ SearchesReturned
    /\ Len(searchOut) = 2
    /\ searchOut[1] = "RAISE" /\ searchOut[2] = "evidence"
    /\ current_state.search_queries[1].claim_id = 0
    /\ current_state.search_results[2].result = "evidence"

\* C10: when the sentiment branch failed, parallel_analysis returns
\* status = error with error_from = sentiment_analysis, whether or not the
\* fact-check branch failed too, and neither its update nor the RunState
\* holds any of sentiment, claims, search_queries, search_results, facts;
\* when only the fact-check branch failed, error_from = fact_checking.
SentimentFailed == Get(sentiment_result, "status", "") = "error"
FactCheckFailed == Get(fact_check_result, "status", "") = "error"

C10_BranchFailureAttribution ==
    lastNode = "parallel_analysis" =>
        /\ SentimentFailed =>
               /\ lastUpdate.status = "error"
               /\ lastUpdate.error_from = "sentiment_analysis"
               /\ DOMAIN lastUpdate \cap AnalysisKeys = {}
               /\ DOMAIN state \cap AnalysisKeys = {}
               /\ pc = "error_handler"
        /\ (~SentimentFailed /\ FactCheckFailed) =>
               /\ lastUpdate.status = "error"
               /\ lastUpdate.error_from = "fact_checking"

C10_Witness ==
    /\ lastNode = "parallel_analysis"
    /\ SentimentFailed /\ FactCheckFailed
    /\ "sentiment" \in calls

\* C11: when both branches succeeded, the update of parallel_analysis has
\* status = success, the sentiment of the sentiment branch and the claims,
\* search_queries, search_results, facts of the fact-check branch, and keeps
\* every other key of the input RunState with its value.
C11_MutualSuccessMerge ==
    (lastNode = "parallel_analysis" /\ ~SentimentFailed /\ ~FactCheckFailed) =>
        /\ lastUpdate.status = "success"
        /\ lastUpdate.sentiment = sentiment_result.sentiment
        /\ lastUpdate.sentiment \in {StripLower(r) : r \in SentimentReplies}
        /\ lastUpdate.claims = fact_check_result.claims
        /\ lastUpdate.search_queries = fact_check_result.search_queries
        /\ lastUpdate.search_results = fact_check_result.search_results
        /\ lastUpdate.facts = fact_check_result.facts
        /\ \A k \in DOMAIN initState \ (AnalysisKeys \cup {"status"}) :
               /\ k \in DOMAIN lastUpdate /\ lastUpdate[k] = initState[k]
               /\ k \in DOMAIN state /\ state[k] = initState[k]
        /\ state = lastUpdate

C11_Witness ==
    /\ lastNode = "parallel_analysis" /\ ~SentimentFailed /\ ~FactCheckFailed
    /\ state.sentiment = "neutral"
    /\ Len(state.search_results) = 2 /\ state.facts # <<>>
    /\ "retries" \in DOMAIN state /\ "keywords" \in DOMAIN state

\* C12: when claim extraction failed or returned no claim, the fact-check
\* chain calls neither the planner nor the search tool nor the verifier,
\* raises nothing, and returns empty claims, search_queries, search_results
\* and facts with status = success.
NoClaims == fcPc \in {"plan", "execute", "searching", "verify", "done"}
                /\ current_state.claims = <<>>

C12_GracefulEmpty ==
    NoClaims =>
        /\ fcPc # "searching"
        /\ calls \cap {"plan", "search", "verify"} = {}
        /\ failed \cap {"plan", "search", "verify", "verify_context"} = {}
        /\ fcPc = "done" =>
               fact_check_result =
                   [claims |-> <<>>, search_queries |-> <<>>,
                    search_results |-> <<>>, facts |-> <<>>, status |-> "success"]

C12_Witness ==
    /\ NoClaims /\ fcPc = "done"
    /\ "extract" \in failed
    /\ fact_check_result.status = "success"

\* C13: without initial retries, a first judgement that succeeds with a
\* score of at least 70 routes to store_and_send after one entry into
\* generate_perspective and one into judge_perspective, with retries = 1;
\* when store_and_send then succeeds the final RunState has status = success
\* and retries = 1.
C13_FirstPassGoesToStore ==
    /\ (NoInitRetries /\ JudgedOk /\ judgeEntries = 1
            /\ state.score >= ScoreThreshold) =>
           /\ pc = "store_and_send"
           /\ genEntries = 1 /\ loopBacks = 0 /\ storeEntries = 0
           /\ state.retries = 1
    /\ (NoInitRetries /\ pc = "__end__" /\ lastNode = "store_and_send"
            /\ judgeEntries = 1) =>
           /\ state.status = "success"
           /\ state.retries = 1
           /\ state.score >= ScoreThreshold
           /\ genEntries = 1 /\ storeEntries = 1 /\ loopBacks = 0

C13_Witness ==
    /\ NoInitRetries /\ pc = "__end__" /\ lastNode = "store_and_send"
    /\ judgeEntries = 1 /\ state.score = 100 /\ state.retries = 1

\* C14: parallel_analysis returns a failure only when both branches and
\* every dispatched search have finished; execute_searches_node returns only
\* when no search is pending; while a search is pending it can still
\* complete, whatever its siblings did, and while the fact-check branch is
\* unfinished it can still step, whatever the sentiment branch did.
NoSearchPending == \A i \in 1..Len(searchOut) : searchOut[i] # "pending"

C14_NoCancellation ==
    /\ (lastNode = "parallel_analysis" /\ lastUpdate.status = "error") =>
           sentPc = "done" /\ fcPc = "done" /\ NoSearchPending
    /\ fcPc \in {"verify", "done"} => NoSearchPending
    /\ (fcPc = "searching" /\ ~NoSearchPending) => ENABLED SearchCompletes
    /\ fcPc \in {"extract", "plan", "execute", "searching", "verify"} =>
           ENABLED (ExtractClaims \/ PlanSearches \/ ExecuteSearches
                        \/ SearchCompletes \/ GatherSearches \/ VerifyFacts)

C14_Witness ==
    /\ sentPc = "done" /\ SentimentFailed
    /\ fcPc = "searching"
    /\ searchOut = <<"RAISE", "pending">>

\* C15 as stated: a node that ends with status = error carries a message
\* and error_from equal to its own name.
C15_ErrorFromIsNodeName ==
    (lastNode \in {"parallel_analysis", "generate_perspective", "judge_perspective"}
         /\ Get(lastUpdate, "status", "") = "error") =>
        /\ "message" \in DOMAIN lastUpdate
        /\ lastUpdate.error_from = lastNode

\* C15 amended: a fault inside generate_perspective or judge_perspective,
\* and a fault inside parallel_analysis that its fact-check steps do not
\* recover, ends the node with status = error, a message and error_from:
\* the node's own name for generate_perspective and judge_perspective, the
\* failing branch (sentiment_analysis, else fact_checking) for
\* parallel_analysis.
NodeFault ==
    CASE lastNode = "parallel_analysis" ->
             failed \cap {"sentiment", "verify_context"} # {}
      [] lastNode = "generate_perspective" -> "generate" \in failed
      [] lastNode = "judge_perspective" -> "judge" \in failed
      [] OTHER -> FALSE

ExpectedErrorFrom ==
    IF lastNode = "parallel_analysis"
    THEN (IF "sentiment" \in failed THEN "sentiment_analysis" ELSE "fact_checking")
    ELSE lastNode

C15_ErrorFromNodeOrBranch ==
    lastNode \in {"parallel_analysis", "generate_perspective", "judge_perspective"} =>
        /\ NodeFault <=> Get(lastUpdate, "status", "") = "error"
        /\ NodeFault =>
               /\ "message" \in DOMAIN lastUpdate
               /\ lastUpdate.error_from = ExpectedErrorFrom
               /\ pc = "error_handler"

C15_Witness ==
    /\ lastNode = "generate_perspective" /\ NodeFault
    /\ lastUpdate.error_from = "generate_perspective"
    /\ genEntries = 2

\* C16: retries never decreases; a step of generate_perspective, failed or
\* not, leaves retries one above its value before (0 when absent), and no
\* other step changes it.
C16_RetriesCountEntries ==
    [][ IF pc = "generate_perspective"
        THEN /\ "retries" \in DOMAIN state'
             /\ state'.retries = Get(state, "retries", 0) + 1
        ELSE /\ ("retries" \in DOMAIN state') = ("retries" \in DOMAIN state)
             /\ Get(state', "retries", 0) = Get(state, "retries", 0) ]_vars

\* C17: the dict a node was handed is, after the node ran, what it was when
\* the node started.
C17_NodesDoNotMutateInput ==
    [][ (pc \in {"generate_perspective", "judge_perspective"}
             \/ (pc = "parallel_analysis" /\ lastNode' = "parallel_analysis"))
            => nodeInput' = state ]_vars

\* C18: while parallel_analysis runs, the RunState and the dict both
\* branches were handed stay as the run was invoked; the sentiment branch's
\* result never holds an output of the fact-check chain, and the fact-check
\* chain's state and result never hold the sentiment; the two meet only in
\* the update of the join.
FactCheckKeys == {"claims", "search_queries", "search_results", "facts",
                  "fact_check_done"}

C18_BranchIsolation ==
    /\ lastNode = "none" =>
           /\ state = initState
           /\ sentPc # "idle" => nodeInput = initState
           /\ DOMAIN state \cap (AnalysisKeys \cup FactCheckKeys) = {}
    /\ DOMAIN sentiment_result \cap FactCheckKeys = {}
    /\ "sentiment" \notin DOMAIN current_state
    /\ "sentiment" \notin DOMAIN fact_check_result

C18_Witness ==
    /\ lastNode = "none"
    /\ sentPc = "done" /\ "sentiment" \in DOMAIN sentiment_result
    /\ fcPc = "done" /\ current_state.claims # <<>>
    /\ Len(current_state.search_results) = 2

\* C19: once parallel_analysis has produced its update, and so whenever a
\* later node is due or has run, both branches have completed.
C19_JoinAfterBothBranches ==
    (pc # "parallel_analysis" \/ lastNode # "none" \/ genEntries > 0) =>
        sentPc = "done" /\ fcPc = "done"

C19_Witness == fcPc = "done" /\ sentPc = "running" /\ pc = "parallel_analysis"

\* C20 as stated: a failure of the sentiment, claim-extraction,
\* search-planning or fact-verification task ends parallel_analysis with
\* status = error, and a failure of the generation or judging task ends its
\* node with status = error.
C20_OnlySearchRecovers ==
    /\ (lastNode = "parallel_analysis"
            /\ failed \cap {"sentiment", "extract", "plan", "verify"} # {})
           => lastUpdate.status = "error"
    /\ (lastNode = "generate_perspective" /\ "generate" \in failed)
           => lastUpdate.status = "error"
    /\ (lastNode = "judge_perspective" /\ "judge" \in failed)
           => lastUpdate.status = "error"

\* C20 amended: a failure of the sentiment, generation or judging task ends
\* its node with status = error; a failure of the claim-extraction,
\* search-planning or fact-verification call is recovered inside its step,
\* like a failed search: the step yields an empty list and the fact-check
\* branch still returns status = success.
C20_FatalAndRecoveredFailures ==
    /\ (lastNode = "parallel_analysis" /\ "sentiment" \in failed)
           => lastUpdate.status = "error"
    /\ (lastNode = "generate_perspective" /\ "generate" \in failed)
           => lastUpdate.status = "error"
    /\ (lastNode = "judge_perspective" /\ "judge" \in failed)
           => lastUpdate.status = "error"
    /\ ("extract" \in failed /\ fcPc # "extract") => current_state.claims = <<>>
    /\ ("plan" \in failed /\ fcPc \notin {"extract", "plan"})
           => current_state.search_queries = <<>>
    /\ ("verify" \in failed /\ fcPc = "done") => current_state.facts = <<>>
    /\ (failed \cap {"extract", "plan", "verify"} # {} /\ fcPc = "done")
           => fact_check_result.status = "success"

C20_Witness ==
    /\ lastNode = "parallel_analysis"
    /\ "verify" \in failed /\ "search" \in failed
    /\ lastUpdate.status = "success"
    /\ lastUpdate.claims # <<>> /\ lastUpdate.facts = <<>>

\* C21: apply(s, p) has exactly the keys of s and p together, holds p's
\* value on every key of p and s's value on every key of s that p lacks,
\* and applying p a second time changes nothing.
C21_MergeSemantics ==
    lastNode = "merge" =>
        /\ DOMAIN state = DOMAIN nodeInput \cup DOMAIN lastUpdate
        /\ \A k \in DOMAIN lastUpdate : state[k] = lastUpdate[k]
        /\ \A k \in DOMAIN nodeInput \ DOMAIN lastUpdate : state[k] = nodeInput[k]
        /\ apply(state, lastUpdate) = state

C21_Witness ==
    /\ lastNode = "merge"
    /\ nodeInput = [status |-> "success", score |-> 0]
    /\ lastUpdate = [status |-> "error", retries |-> RetryLimit]
    /\ state = [status |-> "error", score |-> 0, retries |-> RetryLimit]

\* C22: once parallel_analysis, generate_perspective or judge_perspective
\* has completed, the RunState holds status, written by that node's update,
\* and it is success or error.
C22_StatusAlwaysPresent ==
    lastNode \in {"parallel_analysis", "generate_perspective", "judge_perspective"} =>
        /\ "status" \in DOMAIN state
        /\ state.status \in {"success", "error"}
        /\ "status" \in DOMAIN lastUpdate
        /\ state.status = lastUpdate.status

C22_Witness ==
    /\ lastNode = "parallel_analysis"
    /\ state.status = "success"
    /\ "status" \notin DOMAIN initState

\* C23: a score in the RunState is an integer from 0 to 100, whatever
\* integer the judge's reply held, and a failed judgement writes no score.
C23_ScoreInRange ==
    /\ "score" \in DOMAIN state => state.score \in 0..MaxScore
    /\ (lastNode = "judge_perspective" /\ lastUpdate.status = "error") =>
           "score" \notin DOMAIN lastUpdate
    /\ (lastNode = "judge_perspective" /\ lastUpdate.status = "success") =>
           /\ parsedScore >= 0
           /\ lastUpdate.score =
                  (IF parsedScore > MaxScore THEN MaxScore ELSE parsedScore)

C23_Witness ==
    /\ lastNode = "judge_perspective"
    /\ parsedScore > MaxScore
    /\ lastUpdate.status = "success"
    /\ state.score = MaxScore

\* C24: cleaned_text in the RunState is what the run was invoked with, and
\* is absent when the run was invoked without it.
C24_CleanedTextUnchanged ==
    /\ ("cleaned_text" \in DOMAIN state) = ("cleaned_text" \in DOMAIN initState)
    /\ "cleaned_text" \in DOMAIN state => state.cleaned_text = initState.cleaned_text

C24_Witness ==
    /\ pc = "__end__" /\ lastNode = "store_and_send"
    /\ loopBacks = 2
    /\ state.cleaned_text = "article"

\* C25: with an empty search plan execute_searches_node returns an empty
\* result list at once: no search is dispatched and the gather is never
\* waited on.
EmptyPlan == fcPc \in {"execute", "searching", "verify", "done"}
                 /\ current_state.search_queries = <<>>

C25_EmptyPlanNoDispatch ==
    EmptyPlan =>
        /\ fcPc # "searching"
        /\ searchOut = <<>>
        /\ "search" \notin calls
        /\ fcPc \in {"verify", "done"} => current_state.search_results = <<>>

C25_Witness ==
    /\ EmptyPlan /\ fcPc = "verify"
    /\ current_state.claims # <<>>
    /\ "plan" \in calls /\ "plan" \notin failed

\* C26: a planning call or a verification call that fails on a non-empty
\* claim list leaves its step with an empty list of its own (search_queries,
\* facts); the later steps still run, the fact-check branch returns
\* status = success with the claims it extracted, and parallel_analysis
\* reports an error only if the sentiment branch failed.
ErrorKeys == {"error_from", "message"}

C26_PlanVerifyFailuresRecovered ==
    /\ ("plan" \in failed /\ fcPc \in {"execute", "verify", "done"}) =>
           /\ current_state.claims # <<>>
           /\ current_state.search_queries = <<>>
           /\ "search" \notin calls
    /\ ("plan" \in failed /\ fcPc = "done") =>
           /\ "verify" \in calls
           /\ fact_check_result.search_results = <<>>
    /\ ("verify" \in failed /\ fcPc = "done") =>
           /\ current_state.facts = <<>>
           /\ fact_check_result.facts = <<>>
           /\ fact_check_result.search_results = current_state.search_results
    /\ (failed \cap {"plan", "verify"} # {} /\ fcPc = "done") =>
           /\ fact_check_result.status = "success"
           /\ fact_check_result.claims = current_state.claims
           /\ fact_check_result.claims # <<>>
           /\ DOMAIN fact_check_result \cap ErrorKeys = {}
    /\ (failed \cap {"plan", "verify"} # {} /\ lastNode = "parallel_analysis") =>
           /\ (lastUpdate.status = "error") = ("sentiment" \in failed)
           /\ lastUpdate.status = "error" =>
                  lastUpdate.error_from = "sentiment_analysis"
           /\ lastUpdate.status = "success" =>
                  lastUpdate.claims = fact_check_result.claims

C26_Witness ==
    /\ lastNode = "parallel_analysis"
    /\ "plan" \in failed /\ "verify" \in failed
    /\ lastUpdate.status = "success"
    /\ lastUpdate.claims # <<>>
    /\ lastUpdate.search_queries = <<>> /\ lastUpdate.facts = <<>>
    /\ pc = "generate_perspective"

\* C27: store_and_send is entered at most once in a run, only right after
\* judge_perspective and only on a RunState with status = success, a
\* perspective, a score, and score >= 70 or retries >= 3.
C27_StoreEntryGuard ==
    /\ storeEntries <= 1
    /\ pc = "store_and_send" =>
           /\ storeEntries = 0
           /\ lastNode = "judge_perspective"
           /\ state.status = "success"
           /\ {"perspective", "score", "retries"} \subseteq DOMAIN state
           /\ state.score >= ScoreThreshold \/ state.retries >= RetryLimit
    /\ storeEntries = 1 =>
           /\ lastNode \in {"store_and_send", "error_handler"}
           /\ pc \in {"error_handler", "__end__"}
           /\ judgeEntries >= 1 /\ genEntries >= 1

C27_Witness ==
    /\ pc = "store_and_send"
    /\ state.score < ScoreThreshold
    /\ state.retries >= RetryLimit

\* C28: a failing generate_perspective or judge_perspective returns exactly
\* status, error_from and message, so the RunState error_handler is handed
\* holds every other field as it was before the failing node ran: the
\* analysis outputs, retries, and after a loop-back the perspective and the
\* score of the earlier attempt.
StatusKeys == {"status", "error_from", "message"}

LateNodeFailed ==
    /\ lastNode \in {"generate_perspective", "judge_perspective"}
    /\ lastUpdate.status = "error"

C28_FailureKeepsEarlierFields ==
    LateNodeFailed =>
        /\ DOMAIN lastUpdate = StatusKeys
        /\ pc = "error_handler"
        /\ DOMAIN state = (DOMAIN nodeInput \ {"retries"}) \cup StatusKeys
                              \cup (DOMAIN state \cap {"retries"})
        /\ \A k \in DOMAIN nodeInput \ (StatusKeys \cup {"retries"}) :
               state[k] = nodeInput[k]
        /\ AnalysisKeys \subseteq DOMAIN state
        /\ lastNode = "judge_perspective" => state.retries = nodeInput.retries
        /\ lastNode = "generate_perspective" =>
               Get(state, "retries", 0) + 1 = nodeInput.retries
        /\ loopBacks > 0 =>
               /\ state.perspective = produced
               /\ state.score = Clamp(parsedScore)

C28_Witness ==
    /\ LateNodeFailed
    /\ lastNode = "generate_perspective"
    /\ loopBacks = 1
    /\ state.score = 69 /\ state.perspective.perspective = "pA"
    /\ state.sentiment = "neutral"

\* C29: when the run was invoked without error_from and message, the
\* RunState holds them only while status = error; a run that ended after
\* store_and_send with status = success holds neither.
C29_ErrorFieldsOnlyOnError ==
    DOMAIN initState \cap ErrorKeys = {} =>
        /\ DOMAIN state \cap ErrorKeys # {} =>
               /\ ErrorKeys \subseteq DOMAIN state
               /\ state.status = "error"
        /\ (pc = "__end__" /\ lastNode = "store_and_send") =>
               /\ state.status = "success"
               /\ DOMAIN state \cap ErrorKeys = {}

C29_Witness ==
    /\ pc = "__end__" /\ lastNode = "store_and_send"
    /\ loopBacks = 2
    /\ state.status = "success"
    /\ DOMAIN state \cap ErrorKeys = {}

\* C30: a run invoked with a missing or empty cleaned_text never enters
\* generate_perspective, so retries stays as it was invoked (absent when it
\* was absent); parallel_analysis reports error_from = sentiment_analysis
\* and routes to error_handler, after which the run ends; the fact-check
\* chain has nevertheless run all its steps on the same input.
C30_MissingTextStopsAtSentiment ==
    Falsy(initState, "cleaned_text") =>
        /\ genEntries = 0 /\ judgeEntries = 0 /\ storeEntries = 0
        /\ pc \in {"parallel_analysis", "error_handler", "__end__"}
        /\ ("retries" \in DOMAIN state) = ("retries" \in DOMAIN initState)
        /\ Get(state, "retries", None) = Get(initState, "retries", None)
        /\ "sentiment" \notin calls
        /\ lastNode # "none" =>
               /\ state.status = "error"
               /\ state.error_from = "sentiment_analysis"
               /\ fcPc = "done" /\ "extract" \in calls
               /\ "status" \in DOMAIN fact_check_result
        /\ lastNode = "parallel_analysis" => pc = "error_handler"
        /\ pc = "__end__" => lastNode = "error_handler"

C30_Witness ==
    /\ Falsy(initState, "cleaned_text")
    /\ pc = "__end__" /\ lastNode = "error_handler"
    /\ state.error_from = "sentiment_analysis"
    /\ "retries" \notin DOMAIN state
    /\ fact_check_result.status = "success"
    /\ fact_check_result.facts # <<>>
    /\ calls = {"extract", "plan", "search", "verify"}

\* C31: when the gather of execute_searches_node has returned, the i-th
\* result is the result of the i-th submitted query, with that query's
\* claim_id, in whatever order the searches completed.
FanOutReturned == fcPc = "verify" /\ searchOut # <<>>

C31_ResultsInSubmissionOrder ==
    /\ FanOutReturned =>
           LET qs == current_state.search_queries
               rs == current_state.search_results
           IN  /\ Len(doneOrder) = Len(qs)
               /\ {doneOrder[k] : k \in 1..Len(doneOrder)} = 1..Len(qs)
               /\ Len(rs) = Len(qs)
               /\ \A i \in 1..Len(qs) :
                      /\ rs[i].claim_id = qs[i].claim_id
                      /\ rs[i].result = (IF searchOut[i] = "RAISE"
                                         THEN "Search failed" ELSE searchOut[i])
    /\ (fcPc = "done" /\ Get(fact_check_result, "status", "") = "success") =>
           /\ Len(fact_check_result.search_results)
                  = Len(fact_check_result.search_queries)
           /\ \A i \in 1..Len(fact_check_result.search_queries) :
                  fact_check_result.search_results[i].claim_id
                      = fact_check_result.search_queries[i].claim_id

C31_Witness ==
    /\ FanOutReturned
    /\ doneOrder = <<2, 1>>
    /\ current_state.search_queries[1].claim_id = None
    /\ current_state.search_queries[2].claim_id = 0
    /\ current_state.search_results[1] = [claim_id |-> None, result |-> "evidence"]
    /\ current_state.search_results[2] = [claim_id |-> 0, result |-> "Search failed"]

====
